---- MODULE Spec2Model ----
(***************************************************************************)
(* Converters for ONNX operators (hummingbird/ml/operator_converters/onnx/ *)
(* onnx_operator.py): the operator units (Cast, Reshape, Sum, Add, Less,   *)
(* Neg, Abs, Mul, Div), the ten convert_onnx_* factories and the           *)
(* registrations made when the module is loaded.                           *)
(*                                                                         *)
(* Numbers are exact rationals <<n, d>> in lowest terms with d > 0; a zero *)
(* denominator stands for the IEEE results of a division by zero           *)
(* (<<1,0>> = inf, <<-1,0>> = -inf, <<0,0>> = nan).  Every input value of  *)
(* the model is a small dyadic rational, exactly representable in float32  *)
(* and float64, so a float conversion keeps the value and changes the      *)
(* dtype; quotients are kept exact.                                        *)
(* A tensor is [dtype, shape, data] with data in row-major order.          *)
(***************************************************************************)
EXTENDS Integers, Sequences, FiniteSets, TLC

\* ------------------------------------------------------------------ bounds

\* Longest attribute list of a node descriptor.
MaxAttrs == 1
\* Longest input-reference list of a node descriptor.
MaxInputs == 2
\* Longest int64_data array of an initializer (the rank of a target shape).
MaxRank == 2
\* Longest rank-1 input tensor drawn from FloatValues.
MaxLen == 1

\* ----------------------------------------------------------------- numbers

AbsInt(i) == IF i < 0 THEN -i ELSE i

Sign(i) == IF i < 0 THEN -1 ELSE IF i = 0 THEN 0 ELSE 1

RECURSIVE Gcd(_, _)
Gcd(a, b) == IF b = 0 THEN a ELSE Gcd(b, a % b)

\* The rational n/d in lowest terms; n/0 is inf, -inf or nan by the sign of n.
Q(n, d) ==
  IF d = 0 THEN <<Sign(n), 0>>
  ELSE LET g == Gcd(AbsInt(n), AbsInt(d))
           s == IF d < 0 THEN -1 ELSE 1
       IN  <<(s * n) \div g, (s * d) \div g>>

QInt(i) == <<i, 1>>

QAdd(a, b) == Q(a[1] * b[2] + b[1] * a[2], a[2] * b[2])

QMul(a, b) == Q(a[1] * b[1], a[2] * b[2])

QDiv(a, b) == Q(a[1] * b[2], a[2] * b[1])

QNeg(a) == <<-a[1], a[2]>>

QAbs(a) == <<AbsInt(a[1]), a[2]>>

QLt(a, b) == a[1] * b[2] < b[1] * a[2]

\* Rounding toward zero, as a float-to-integer conversion does.
QTrunc(a) == <<Sign(a[1]) * (AbsInt(a[1]) \div a[2]), 1>>

\* ----------------------------------------------------------------- tensors

RECURSIVE Prod(_)
Prod(s) == IF s = <<>> THEN 1 ELSE Head(s) * Prod(Tail(s))

Numel(t) == Prod(t.shape)

Tensor(dtype, shape, data) == [dtype |-> dtype, shape |-> shape, data |-> data]

\* A rank-1 tensor holding the given values.
Vec(dtype, data) == Tensor(dtype, <<Len(data)>>, data)

Max2(a, b) == IF a < b THEN b ELSE a

\* A shape padded on the left with 1s up to rank r (broadcasting aligns right).
PadLeft(s, r) == [i \in 1..r |-> IF i <= r - Len(s) THEN 1 ELSE s[i - (r - Len(s))]]

BroadcastOk(s, t) ==
  LET r == Max2(Len(s), Len(t))
      ps == PadLeft(s, r)
      pt == PadLeft(t, r)
  IN  \A i \in 1..r : ps[i] = pt[i] \/ ps[i] = 1 \/ pt[i] = 1

BroadcastShape(s, t) ==
  LET r == Max2(Len(s), Len(t))
      ps == PadLeft(s, r)
      pt == PadLeft(t, r)
  IN  [i \in 1..r |-> IF ps[i] = 1 THEN pt[i] ELSE ps[i]]

\* Row-major stride of dimension i of shape s.
Stride(s, i) == Prod(SubSeq(s, i + 1, Len(s)))

RECURSIVE SumTo(_, _)
SumTo(f, n) == IF n = 0 THEN 0 ELSE f[n] + SumTo(f, n - 1)

\* The 1-based position in an operand of shape s that supplies element k
\* (1-based) of the broadcast result of shape o.
BroadcastIndex(s, o, k) ==
  LET r == Len(o)
      ps == PadLeft(s, r)
      coord == [i \in 1..r |-> ((k - 1) \div Stride(o, i)) % o[i]]
      off == [i \in 1..r |-> IF ps[i] = 1 THEN 0 ELSE coord[i] * Stride(ps, i)]
  IN  1 + SumTo(off, r)

\* torch type promotion between two tensors of rank >= 1.
PromoteTypes(d1, d2) ==
  IF "float64" \in {d1, d2} THEN "float64"
  ELSE IF "float32" \in {d1, d2} THEN "float32"
  ELSE IF "int64" \in {d1, d2} THEN "int64"
  ELSE "bool"

\* torch type promotion between a tensor and a Python float scalar.
PromoteScalar(d) == IF d \in {"float32", "float64"} THEN d ELSE "float32"

\* ----------------------------------------------------------------- outcomes

\* Python's None, and a present value.
None == <<>>

Some(v) == <<v>>

Returns(v) == [kind |-> "return", value |-> v]

Raises(exc, where, msg) == [kind |-> "raise", exc |-> exc, where |-> where, msg |-> msg]

\* str.format of a type code, as "{}".format does.
Format(v) == IF v = None THEN "None" ELSE ToString(v[1])

\* ------------------------------------------------------------ tensor runtime

\* x.float(), x.double(): the element type changes, the values are kept.
ToFloating(x, dtype) == Tensor(dtype, x.shape, x.data)

\* x.long(): every element is rounded toward zero.
ToLong(x) == Tensor("int64", x.shape, [i \in 1..Len(x.data) |-> QTrunc(x.data[i])])

\* torch.reshape(x, shape): at most one dimension may be -1 and is inferred
\* from the element count; any other negative dimension is invalid; the sizes
\* must multiply to the element count.
TorchReshape(x, shape) ==
  LET n == Len(shape)
      infer == {i \in 1..n : shape[i] = -1}
      known == {i \in 1..n : shape[i] >= 0}
      newsize == Prod([i \in 1..n |-> IF shape[i] >= 0 THEN shape[i] ELSE 1])
      numel == Numel(x)
  IN  IF Cardinality(infer) > 1 \/ infer \cup known # 1..n
        THEN Raises("RuntimeError", "torch.reshape", <<>>)
      ELSE IF numel = newsize \/ (infer # {} /\ newsize > 0 /\ numel % newsize = 0)
        THEN IF infer # {} /\ newsize = 0
               THEN Raises("RuntimeError", "torch.reshape", <<>>)
             ELSE Returns(Tensor(x.dtype,
                                 [i \in 1..n |-> IF shape[i] = -1 THEN numel \div newsize
                                                 ELSE shape[i]],
                                 x.data))
      ELSE Raises("RuntimeError", "torch.reshape", <<>>)

\* The scalar operation of an elementwise tensor function.
ScalarOp(fn, p, q) ==
  CASE fn = "torch.add" -> QAdd(p, q)
    [] fn = "torch.divide" -> QDiv(p, q)

\* An elementwise binary function with broadcasting; shapes that do not
\* broadcast make the runtime raise.
Elementwise(fn, dtype, a, b) ==
  IF ~BroadcastOk(a.shape, b.shape) THEN Raises("RuntimeError", fn, <<>>)
  ELSE LET o == BroadcastShape(a.shape, b.shape)
       IN  Returns(Tensor(dtype, o,
                          [k \in 1..Prod(o) |->
                             ScalarOp(fn, a.data[BroadcastIndex(a.shape, o, k)],
                                          b.data[BroadcastIndex(b.shape, o, k)])]))

TorchAdd(a, b) == Elementwise("torch.add", PromoteTypes(a.dtype, b.dtype), a, b)

\* torch.divide is true division: integer operands give a floating result.
TorchDivide(a, b) ==
  LET p == PromoteTypes(a.dtype, b.dtype)
  IN  Elementwise("torch.divide", IF p \in {"int64", "bool"} THEN "float32" ELSE p, a, b)

RECURSIVE QSum(_)
QSum(data) == IF data = <<>> THEN QInt(0) ELSE QAdd(Head(data), QSum(Tail(data)))

\* ------------------------------------------------------------ operator units

\* Cast.__init__ without its check of the type.
CastInit_Unchecked(to_type) == Returns([cls |-> "Cast", to_type |-> to_type])

\* Cast.__init__
CastInit(to_type) ==
  IF to_type = None THEN Raises("AssertionError", "Cast.__init__", <<>>)
  ELSE Returns([cls |-> "Cast", to_type |-> to_type])

\* Cast.forward with the branches of codes 7 and 11 exchanged.
CastForward_Swapped(self, x) ==
  [self |-> self, x |-> x,
   ret |-> IF self.to_type = Some(1) THEN Returns(ToFloating(x[1], "float32"))
           ELSE IF self.to_type = Some(11) THEN Returns(ToLong(x[1]))
           ELSE IF self.to_type = Some(7) THEN Returns(ToFloating(x[1], "float64"))
           ELSE Raises("RuntimeError", "Cast.forward",
                       <<"Cast to ONNX type ", Format(self.to_type),
                         " not supported yet. Please fill an issue at https://github.com/microsoft/hummingbird">>)]

\* Cast.forward
CastForward(self, x) ==
  [self |-> self, x |-> x,
   ret |-> IF self.to_type = Some(1) THEN Returns(ToFloating(x[1], "float32"))
           ELSE IF self.to_type = Some(7) THEN Returns(ToLong(x[1]))
           ELSE IF self.to_type = Some(11) THEN Returns(ToFloating(x[1], "float64"))
           ELSE Raises("RuntimeError", "Cast.forward",
                       <<"Cast to ONNX type ", Format(self.to_type),
                         " not supported yet. Please fill an issue at https://github.com/microsoft/hummingbird">>)]

\* Reshape.__init__
ReshapeInit(shape) == Returns([cls |-> "Reshape", shape |-> shape])

\* Reshape.forward
ReshapeForward(self, x) ==
  [self |-> self, x |-> x, ret |-> TorchReshape(x[1], self.shape)]

\* Sum.__init__
SumInit == Returns([cls |-> "Sum"])

\* Sum.forward: torch.sum(x).view(1)
SumForward(self, x) ==
  [self |-> self, x |-> x,
   ret |-> Returns(Tensor(x[1].dtype, <<1>>, <<QSum(x[1].data)>>))]

\* Add.__init__: the operand is held as a float32 tensor.
AddInit(val) == Returns([cls |-> "Add", val |-> Vec("float32", val)])

\* Add.forward adding the operand to the first input however many inputs come.
AddForward_AlwaysOperand(self, x) ==
  [self |-> self, x |-> x, ret |-> TorchAdd(x[1], self.val)]

\* Add.forward accumulating a single input into the operand in place.
AddForward_InPlace(self, x) ==
  LET r == IF Len(x) = 1 THEN TorchAdd(x[1], self.val)
           ELSE IF Len(x) = 2 THEN TorchAdd(x[1], x[2])
           ELSE Raises("TypeError", "torch.add", <<>>)
  IN  [self |-> IF Len(x) = 1 /\ r.kind = "return" THEN [self EXCEPT !.val = r.value] ELSE self,
       x |-> x, ret |-> r]

\* Add.forward
AddForward(self, x) ==
  [self |-> self, x |-> x,
   ret |-> IF Len(x) = 1 THEN TorchAdd(x[1], self.val)
           ELSE IF Len(x) = 2 THEN TorchAdd(x[1], x[2])
           ELSE Raises("TypeError", "torch.add", <<>>)]

\* Less.__init__
LessInit(val) == Returns([cls |-> "Less", val |-> val])

\* Less.forward: torch.lt(x, self.val)
LessForward(self, x) ==
  [self |-> self, x |-> x,
   ret |-> Returns(Tensor("bool", x[1].shape,
                          [i \in 1..Len(x[1].data) |-> QLt(x[1].data[i], self.val)]))]

\* Neg.__init__
NegInit == Returns([cls |-> "Neg"])

\* Neg.forward: torch.neg(x).view(-1)
NegForward(self, x) ==
  [self |-> self, x |-> x,
   ret |-> Returns(Tensor(x[1].dtype, <<Numel(x[1])>>,
                          [i \in 1..Len(x[1].data) |-> QNeg(x[1].data[i])]))]

\* Abs.__init__
AbsInit == Returns([cls |-> "Abs"])

\* Abs.forward
AbsForward(self, x) ==
  [self |-> self, x |-> x,
   ret |-> Returns(Tensor(x[1].dtype, x[1].shape,
                          [i \in 1..Len(x[1].data) |-> QAbs(x[1].data[i])]))]

\* Mul.__init__
MulInit(val) == Returns([cls |-> "Mul", val |-> val])

\* Mul.forward: torch.mul(x, self.val)
MulForward(self, x) ==
  [self |-> self, x |-> x,
   ret |-> Returns(Tensor(PromoteScalar(x[1].dtype), x[1].shape,
                          [i \in 1..Len(x[1].data) |-> QMul(x[1].data[i], self.val)]))]

\* Div.__init__
DivInit == Returns([cls |-> "Div"])

\* Div.forward: torch.divide(*x)
DivForward(self, x) ==
  [self |-> self, x |-> x,
   ret |-> IF Len(x) = 2 THEN TorchDivide(x[1], x[2])
           ELSE Raises("TypeError", "torch.divide", <<>>)]

\* The concatenation unit of _pipeline_implementations, built with no argument.
ConcatInit == Returns([cls |-> "Concat"])

\* ----------------------------------------------------------------- factories

\* constants.ONNX_INITIALIZERS, the key of the initializer table in extra_config.
ONNX_INITIALIZERS == "onnx_initializers"

\* d[k] on a Python mapping.
HasKey(d, k) == k \in DOMAIN d

\* What a factory call leaves behind: its outcome and its argument objects.
Called(operator, extra_config, ret) ==
  [operator |-> operator, extra_config |-> extra_config, ret |-> ret]

\* The loop of convert_onnx_cast: the value of the last attribute named "to".
ToTypeOf(attribute) ==
  LET at == {k \in 1..Len(attribute) : attribute[k].name = "to"}
  IN  IF at = {} THEN None
      ELSE Some(attribute[CHOOSE k \in at : \A j \in at : j <= k].i)

convert_onnx_cast(operator, device, extra_config) ==
  Called(operator, extra_config,
    IF operator = None THEN Raises("AssertionError", "convert_onnx_cast", <<>>)
    ELSE CastInit(ToTypeOf(operator[1].attribute)))

convert_onnx_concat(operator, device, extra_config) ==
  Called(operator, extra_config,
    IF operator = None THEN Raises("AssertionError", "convert_onnx_concat", <<>>)
    ELSE ConcatInit)

\* convert_onnx_reshape reading the node's first input reference.
convert_onnx_reshape_FirstInput(operator, device, extra_config) ==
  Called(operator, extra_config,
    IF operator = None THEN Raises("AssertionError", "convert_onnx_reshape", <<>>)
    ELSE IF ~HasKey(extra_config, ONNX_INITIALIZERS)
      THEN Raises("KeyError", "convert_onnx_reshape", <<ONNX_INITIALIZERS>>)
    ELSE LET initializers == extra_config[ONNX_INITIALIZERS]
             input == operator[1].input
         IN  IF Len(input) < 1 THEN Raises("IndexError", "convert_onnx_reshape", <<>>)
             ELSE IF ~HasKey(initializers, input[1])
               THEN Raises("KeyError", "convert_onnx_reshape", <<input[1]>>)
             ELSE ReshapeInit(initializers[input[1]].int64_data))

convert_onnx_reshape(operator, device, extra_config) ==
  Called(operator, extra_config,
    IF operator = None THEN Raises("AssertionError", "convert_onnx_reshape", <<>>)
    ELSE IF ~HasKey(extra_config, ONNX_INITIALIZERS)
      THEN Raises("KeyError", "convert_onnx_reshape", <<ONNX_INITIALIZERS>>)
    ELSE LET initializers == extra_config[ONNX_INITIALIZERS]
             input == operator[1].input
         IN  IF Len(input) < 2 THEN Raises("IndexError", "convert_onnx_reshape", <<>>)
             ELSE IF ~HasKey(initializers, input[2])
               THEN Raises("KeyError", "convert_onnx_reshape", <<input[2]>>)
             ELSE ReshapeInit(initializers[input[2]].int64_data))

\* convert_onnx_sum without its check of the node.
convert_onnx_sum_Unchecked(operator, device, extra_config) ==
  Called(operator, extra_config, SumInit)

convert_onnx_sum(operator, device, extra_config) ==
  Called(operator, extra_config,
    IF operator = None THEN Raises("AssertionError", "convert_onnx_sum", <<>>)
    ELSE SumInit)

\* convert_onnx_add reading the initializer named by the node's second input.
convert_onnx_add_ByInput(operator, device, extra_config) ==
  Called(operator, extra_config,
    IF operator = None THEN Raises("AssertionError", "convert_onnx_add", <<>>)
    ELSE IF ~HasKey(extra_config, ONNX_INITIALIZERS)
      THEN Raises("KeyError", "convert_onnx_add", <<ONNX_INITIALIZERS>>)
    ELSE LET initializers == extra_config[ONNX_INITIALIZERS]
             input == operator[1].input
         IN  IF Len(input) < 2 THEN Raises("IndexError", "convert_onnx_add", <<>>)
             ELSE IF ~HasKey(initializers, input[2])
               THEN Raises("KeyError", "convert_onnx_add", <<input[2]>>)
             ELSE AddInit(initializers[input[2]].float_data))

convert_onnx_add(operator, device, extra_config) ==
  Called(operator, extra_config,
    IF operator = None THEN Raises("AssertionError", "convert_onnx_add", <<>>)
    ELSE IF ~HasKey(extra_config, ONNX_INITIALIZERS)
      THEN Raises("KeyError", "convert_onnx_add", <<ONNX_INITIALIZERS>>)
    ELSE IF ~HasKey(extra_config[ONNX_INITIALIZERS], "cst1")
      THEN Raises("KeyError", "convert_onnx_add", <<"cst1">>)
    ELSE AddInit(extra_config[ONNX_INITIALIZERS]["cst1"].float_data))

convert_onnx_neg(operator, device, extra_config) ==
  Called(operator, extra_config,
    IF operator = None THEN Raises("AssertionError", "convert_onnx_neg", <<>>)
    ELSE NegInit)

convert_onnx_abs(operator, device, extra_config) ==
  Called(operator, extra_config,
    IF operator = None THEN Raises("AssertionError", "convert_onnx_abs", <<>>)
    ELSE AbsInit)

\* convert_onnx_mul looking "cst3" up with a default of None.
convert_onnx_mul_Get(operator, device, extra_config) ==
  Called(operator, extra_config,
    IF operator = None THEN Raises("AssertionError", "convert_onnx_mul", <<>>)
    ELSE IF ~HasKey(extra_config, ONNX_INITIALIZERS)
      THEN Raises("KeyError", "convert_onnx_mul", <<ONNX_INITIALIZERS>>)
    ELSE IF ~HasKey(extra_config[ONNX_INITIALIZERS], "cst3")
      THEN Raises("AttributeError", "convert_onnx_mul", <<"float_data">>)
    ELSE LET val == extra_config[ONNX_INITIALIZERS]["cst3"]
         IN  IF val.float_data = <<>> THEN Raises("IndexError", "convert_onnx_mul", <<>>)
             ELSE MulInit(val.float_data[1]))

convert_onnx_mul(operator, device, extra_config) ==
  Called(operator, extra_config,
    IF operator = None THEN Raises("AssertionError", "convert_onnx_mul", <<>>)
    ELSE IF ~HasKey(extra_config, ONNX_INITIALIZERS)
      THEN Raises("KeyError", "convert_onnx_mul", <<ONNX_INITIALIZERS>>)
    ELSE IF ~HasKey(extra_config[ONNX_INITIALIZERS], "cst3")
      THEN Raises("KeyError", "convert_onnx_mul", <<"cst3">>)
    ELSE LET val == extra_config[ONNX_INITIALIZERS]["cst3"]
         IN  IF val.float_data = <<>> THEN Raises("IndexError", "convert_onnx_mul", <<>>)
             ELSE MulInit(val.float_data[1]))

convert_onnx_div(operator, device, extra_config) ==
  Called(operator, extra_config,
    IF operator = None THEN Raises("AssertionError", "convert_onnx_div", <<>>)
    ELSE DivInit)

convert_onnx_less(operator, device, extra_config) ==
  Called(operator, extra_config,
    IF operator = None THEN Raises("AssertionError", "convert_onnx_less", <<>>)
    ELSE IF ~HasKey(extra_config, ONNX_INITIALIZERS)
      THEN Raises("KeyError", "convert_onnx_less", <<ONNX_INITIALIZERS>>)
    ELSE IF ~HasKey(extra_config[ONNX_INITIALIZERS], "cst0")
      THEN Raises("KeyError", "convert_onnx_less", <<"cst0">>)
    ELSE LET val == extra_config[ONNX_INITIALIZERS]["cst0"]
         IN  IF val.float_data = <<>> THEN Raises("IndexError", "convert_onnx_less", <<>>)
             ELSE LessInit(val.float_data[1]))

\* ------------------------------------------------------------------ registry

\* The registrations with the factories of Add and Abs exchanged.
Registrations_Exchanged ==
  << <<"ONNXMLAbs", "convert_onnx_add">>,
     <<"ONNXMLAdd", "convert_onnx_abs">>,
     <<"ONNXMLCast", "convert_onnx_cast">>,
     <<"ONNXMLConcat", "convert_onnx_concat">>,
     <<"ONNXMLDiv", "convert_onnx_div">>,
     <<"ONNXMLLess", "convert_onnx_less">>,
     <<"ONNXMLMul", "convert_onnx_mul">>,
     <<"ONNXMLNeg", "convert_onnx_neg">>,
     <<"ONNXMLReshape", "convert_onnx_reshape">>,
     <<"ONNXMLSum", "convert_onnx_sum">> >>

\* The register_converter calls made when the module is loaded, in order.
Registrations ==
  << <<"ONNXMLAbs", "convert_onnx_abs">>,
     <<"ONNXMLAdd", "convert_onnx_add">>,
     <<"ONNXMLCast", "convert_onnx_cast">>,
     <<"ONNXMLConcat", "convert_onnx_concat">>,
     <<"ONNXMLDiv", "convert_onnx_div">>,
     <<"ONNXMLLess", "convert_onnx_less">>,
     <<"ONNXMLMul", "convert_onnx_mul">>,
     <<"ONNXMLNeg", "convert_onnx_neg">>,
     <<"ONNXMLReshape", "convert_onnx_reshape">>,
     <<"ONNXMLSum", "convert_onnx_sum">> >>

\* register_converter(name, f) as this module uses it: the factory is stored
\* under the name.  The ten names are distinct and are registered nowhere
\* else, so no call made here meets a name that is already in the table.
register_converter(pool, operator_name, conversion_function) ==
  (operator_name :> conversion_function) @@ pool

\* ------------------------------------------------------------------- inputs

SeqsUpTo(S, n) == UNION {[1..k -> S] : k \in 0..n}

\* ONNX type codes: 1 FLOAT, 7 INT64, 11 DOUBLE, and 6 (INT32), which Cast
\* does not support.
TypeCodes == {1, 7, 11, 6}

Attributes == {[name |-> "to", i |-> c] : c \in TypeCodes} \cup {[name |-> "axis", i |-> 1]}

InputNames == {"X", "shape"}

Node(attribute, input) == Some([attribute |-> attribute, input |-> input])

\* The node descriptors a factory is called with: no node at all, nodes of
\* every attribute list, nodes of every input-reference list.
Nodes ==
  {None}
    \cup {Node(a, <<"X", "shape">>) : a \in SeqsUpTo(Attributes, MaxAttrs)}
    \cup {Node(<<>>, i) : i \in SeqsUpTo(InputNames, MaxInputs)}

Devices == {None}

Dims == {-1, 0, 2, 3}

Int64Arrays == SeqsUpTo(Dims, MaxRank)

FloatArrays == {<<>>, <<QInt(2), QInt(3)>>, <<Q(1, 2)>>}

InitNames == {"cst0", "cst1", "cst3", "shape"}

\* An initializer table holding the names in S: "shape" is an int64 array,
\* the others are float arrays.
Table(S, floats, ints) ==
  [n \in S |-> IF n = "shape" THEN [int64_data |-> ints, float_data |-> <<>>]
               ELSE [int64_data |-> <<>>, float_data |-> floats]]

\* The extra_config maps a factory is called with: one without the table,
\* tables of every set of names, of every float array, of every int64 array.
Configs ==
  {<<>>}
    \cup {ONNX_INITIALIZERS :> Table(S, <<QInt(2), QInt(3)>>, <<2, 3>>) : S \in SUBSET InitNames}
    \cup {ONNX_INITIALIZERS :> Table(InitNames, f, <<2, 3>>) : f \in FloatArrays}
    \cup {ONNX_INITIALIZERS :> Table(InitNames, <<QInt(2), QInt(3)>>, s) : s \in Int64Arrays}

FloatValues == {Q(-3, 2), QInt(1)}

Iota(n) == [i \in 1..n |-> QInt(i)]

\* The input tensors of an apply.
Tensors ==
  {Vec("float32", d) : d \in SeqsUpTo(FloatValues, MaxLen)}
    \cup {Vec("float32", <<QInt(1), QInt(1)>>),
          Vec("float64", <<Q(5, 2), Q(-1, 2)>>),
          Vec("int64", <<QInt(-2), QInt(0)>>),
          Vec("float32", Iota(6)),
          Tensor("int64", <<3, 2>>, Iota(6))}

\* The positional inputs of Add.forward and Div.forward: one tensor or two.
ArgLists == {<<a>> : a \in Tensors} \cup {<<a, b>> : a \in Tensors, b \in Tensors}

\* -------------------------------------------------------------------- state

VARIABLES
  pc,              \* how many of the module's register_converter calls have run
  converter_pool,  \* the registry: operator type name -> factory
  unit,            \* the operator unit the last factory call returned, or None
  call,            \* the last call: the function and its arguments as passed
  after,           \* the argument objects of that call as they are on return
  ret              \* what that call returned or raised

vars == <<pc, converter_pool, unit, call, after, ret>>

Loaded == pc = Len(Registrations)

Init ==
  /\ pc = 0
  /\ converter_pool = <<>>
  /\ unit = None
  /\ call = None
  /\ after = None
  /\ ret = None

\* One register_converter call of the module body.
Register ==
  /\ pc < Len(Registrations)
  /\ converter_pool' = register_converter(converter_pool, Registrations[pc + 1][1],
                                          Registrations[pc + 1][2])
  /\ pc' = pc + 1
  /\ UNCHANGED <<unit, call, after, ret>>

\* Conversion is a one-shot pass made once the module body has run: a
\* behaviour follows one node through its factory call and then through the
\* applies of the unit that call returned.
CanConvert == Loaded /\ call = None

\* A factory call by the host; a raised error leaves the host with no unit.
Convert(fn, operator, device, extra_config, r) ==
  /\ call' = Some([fn |-> fn,
                   args |-> [operator |-> operator, extra_config |-> extra_config]])
  /\ after' = Some([operator |-> r.operator, extra_config |-> r.extra_config])
  /\ ret' = r.ret
  /\ unit' = IF r.ret.kind = "return" THEN Some(r.ret.value) ELSE None
  /\ UNCHANGED <<pc, converter_pool>>

ConvertCast ==
  /\ CanConvert
  /\ \E operator \in Nodes, device \in Devices, extra_config \in Configs :
       Convert("convert_onnx_cast", operator, device, extra_config,
               convert_onnx_cast(operator, device, extra_config))

ConvertConcat ==
  /\ CanConvert
  /\ \E operator \in Nodes, device \in Devices, extra_config \in Configs :
       Convert("convert_onnx_concat", operator, device, extra_config,
               convert_onnx_concat(operator, device, extra_config))

ConvertReshape ==
  /\ CanConvert
  /\ \E operator \in Nodes, device \in Devices, extra_config \in Configs :
       Convert("convert_onnx_reshape", operator, device, extra_config,
               convert_onnx_reshape(operator, device, extra_config))

ConvertSum ==
  /\ CanConvert
  /\ \E operator \in Nodes, device \in Devices, extra_config \in Configs :
       Convert("convert_onnx_sum", operator, device, extra_config,
               convert_onnx_sum(operator, device, extra_config))

ConvertAdd ==
  /\ CanConvert
  /\ \E operator \in Nodes, device \in Devices, extra_config \in Configs :
       Convert("convert_onnx_add", operator, device, extra_config,
               convert_onnx_add(operator, device, extra_config))

ConvertNeg ==
  /\ CanConvert
  /\ \E operator \in Nodes, device \in Devices, extra_config \in Configs :
       Convert("convert_onnx_neg", operator, device, extra_config,
               convert_onnx_neg(operator, device, extra_config))

ConvertAbs ==
  /\ CanConvert
  /\ \E operator \in Nodes, device \in Devices, extra_config \in Configs :
       Convert("convert_onnx_abs", operator, device, extra_config,
               convert_onnx_abs(operator, device, extra_config))

ConvertMul ==
  /\ CanConvert
  /\ \E operator \in Nodes, device \in Devices, extra_config \in Configs :
       Convert("convert_onnx_mul", operator, device, extra_config,
               convert_onnx_mul(operator, device, extra_config))

ConvertDiv ==
  /\ CanConvert
  /\ \E operator \in Nodes, device \in Devices, extra_config \in Configs :
       Convert("convert_onnx_div", operator, device, extra_config,
               convert_onnx_div(operator, device, extra_config))

ConvertLess ==
  /\ CanConvert
  /\ \E operator \in Nodes, device \in Devices, extra_config \in Configs :
       Convert("convert_onnx_less", operator, device, extra_config,
               convert_onnx_less(operator, device, extra_config))

\* The host holds a unit of class cls.  (Concat's forward is defined outside
\* this module; a Concat unit is built here and never applied.)
Holds(cls) == unit # None /\ unit[1].cls = cls

\* One inference: the unit is applied to input tensors.
Apply(x, r) ==
  /\ call' = Some([fn |-> "forward", args |-> [self |-> unit[1], x |-> x]])
  /\ after' = Some([self |-> r.self, x |-> r.x])
  /\ ret' = r.ret
  /\ unit' = Some(r.self)
  /\ UNCHANGED <<pc, converter_pool>>

ApplyCast ==
  /\ Holds("Cast")
  /\ \E x \in Tensors : Apply(<<x>>, CastForward(unit[1], <<x>>))

ApplyReshape ==
  /\ Holds("Reshape")
  /\ \E x \in Tensors : Apply(<<x>>, ReshapeForward(unit[1], <<x>>))

ApplySum ==
  /\ Holds("Sum")
  /\ \E x \in Tensors : Apply(<<x>>, SumForward(unit[1], <<x>>))

ApplyAdd ==
  /\ Holds("Add")
  /\ \E x \in ArgLists : Apply(x, AddForward(unit[1], x))

ApplyLess ==
  /\ Holds("Less")
  /\ \E x \in Tensors : Apply(<<x>>, LessForward(unit[1], <<x>>))

ApplyNeg ==
  /\ Holds("Neg")
  /\ \E x \in Tensors : Apply(<<x>>, NegForward(unit[1], <<x>>))

ApplyAbs ==
  /\ Holds("Abs")
  /\ \E x \in Tensors : Apply(<<x>>, AbsForward(unit[1], <<x>>))

ApplyMul ==
  /\ Holds("Mul")
  /\ \E x \in Tensors : Apply(<<x>>, MulForward(unit[1], <<x>>))

ApplyDiv ==
  /\ Holds("Div")
  /\ \E x \in ArgLists : Apply(x, DivForward(unit[1], x))

Next ==
  \/ Register
  \/ ConvertCast
  \/ ConvertConcat
  \/ ConvertReshape
  \/ ConvertSum
  \/ ConvertAdd
  \/ ConvertNeg
  \/ ConvertAbs
  \/ ConvertMul
  \/ ConvertDiv
  \/ ConvertLess
  \/ ApplyCast
  \/ ApplyReshape
  \/ ApplySum
  \/ ApplyAdd
  \/ ApplyLess
  \/ ApplyNeg
  \/ ApplyAbs
  \/ ApplyMul
  \/ ApplyDiv

Spec == Init /\ [][Next]_vars

\* ------------------------------------------------------------------- claims

Factories ==
  {"convert_onnx_abs", "convert_onnx_add", "convert_onnx_cast", "convert_onnx_concat",
   "convert_onnx_div", "convert_onnx_less", "convert_onnx_mul", "convert_onnx_neg",
   "convert_onnx_reshape", "convert_onnx_sum"}

\* The last call was a call of the factory fn.
IsCall(fn) == call # None /\ call[1].fn = fn

IsFactoryCall == call # None /\ call[1].fn \in Factories

\* The last call was an apply of a unit of class cls.
IsForward(cls) == IsCall("forward") /\ call[1].args.self.cls = cls

NodeGiven == call[1].args.operator # None

HasTable == HasKey(call[1].args.extra_config, ONNX_INITIALIZERS)

TableGiven == call[1].args.extra_config[ONNX_INITIALIZERS]

NoTo(attribute) == \A k \in 1..Len(attribute) : attribute[k].name # "to"

\* c = a + b on rationals, stated without normalisation.
IsSum(a, b, c) == c[1] * a[2] * b[2] = (a[1] * b[2] + b[1] * a[2]) * c[2]

\* v is the integer next to q on the side of zero.
IsTruncation(q, v) ==
  /\ v[2] = 1
  /\ v[1] * q[1] >= 0
  /\ AbsInt(v[1]) * q[2] <= AbsInt(q[1])
  /\ AbsInt(q[1]) < (AbsInt(v[1]) + 1) * q[2]

\* C1: applying a Cast unit of type code c to x returns x as float32 when
\* c = 1, as int64 (rounded toward zero) when c = 7, as float64 when c = 11,
\* shape and order kept; for any other c it raises an error whose message
\* holds the value of c, and returns no tensor.
C1_CastApply ==
  IsForward("Cast") =>
    LET c == call[1].args.self.to_type[1]
        x == call[1].args.x[1]
    IN  /\ c = 1 => /\ ret.kind = "return"
                    /\ ret.value = [dtype |-> "float32", shape |-> x.shape, data |-> x.data]
        /\ c = 7 => /\ ret.kind = "return"
                    /\ ret.value.dtype = "int64"
                    /\ ret.value.shape = x.shape
                    /\ Len(ret.value.data) = Len(x.data)
                    /\ \A i \in 1..Len(x.data) : IsTruncation(x.data[i], ret.value.data[i])
        /\ c = 11 => /\ ret.kind = "return"
                     /\ ret.value = [dtype |-> "float64", shape |-> x.shape, data |-> x.data]
        /\ c \notin {1, 7, 11} => /\ ret.kind = "raise"
                                  /\ \E k \in 1..Len(ret.msg) : ret.msg[k] = ToString(c)

\* A Cast unit of the unsupported code 6 was applied and raised.
C1_Witness ==
  /\ IsForward("Cast")
  /\ call[1].args.self.to_type = Some(6)
  /\ ret.kind = "raise"
  /\ ret.exc = "RuntimeError"

\* C2 as stated: convert_onnx_cast on a node with no attribute "to" succeeds
\* and returns a Cast unit holding an absent type.
C2_Original ==
  (IsCall("convert_onnx_cast") /\ NodeGiven /\ NoTo(call[1].args.operator[1].attribute)) =>
    /\ ret.kind = "return"
    /\ ret.value.cls = "Cast"
    /\ ret.value.to_type = None

\* C2 amended: convert_onnx_cast on a node with no attribute "to" fails at
\* the factory call, with the assertion error of the Cast constructor, and
\* returns no unit; so no Cast unit ever holds an absent type, and no apply
\* is made on one.
C2_FactoryFails ==
  /\ (IsCall("convert_onnx_cast") /\ NodeGiven /\ NoTo(call[1].args.operator[1].attribute)) =>
       /\ ret.kind = "raise"
       /\ ret.exc = "AssertionError"
       /\ ret.where = "Cast.__init__"
       /\ unit = None
  /\ Holds("Cast") => unit[1].to_type # None
  /\ IsForward("Cast") => call[1].args.self.to_type # None

\* convert_onnx_cast was called on a node whose only attribute is not "to".
C2_Witness ==
  /\ IsCall("convert_onnx_cast")
  /\ NodeGiven
  /\ call[1].args.operator[1].attribute = <<[name |-> "axis", i |-> 1]>>
  /\ ret.kind = "raise"

\* C3: an Add unit with operand v applied to one input a returns a + v
\* elementwise (a one-element operand or input is added to every element of
\* the other); applied to two inputs a, b it returns a + b elementwise,
\* whatever v is.
C3_AddApply ==
  IsForward("Add") =>
    LET v == call[1].args.self.val
        x == call[1].args.x
        a == x[1]
        b == IF Len(x) = 1 THEN v ELSE x[2]
        out == ret.value
    IN  /\ a.shape = b.shape =>
             /\ ret.kind = "return"
             /\ out.shape = a.shape
             /\ Len(out.data) = Len(a.data)
             /\ \A i \in 1..Len(a.data) : IsSum(a.data[i], b.data[i], out.data[i])
        /\ (Len(a.shape) = 1 /\ b.shape = <<1>>) =>
             /\ ret.kind = "return"
             /\ out.shape = a.shape
             /\ Len(out.data) = Len(a.data)
             /\ \A i \in 1..Len(a.data) : IsSum(a.data[i], b.data[1], out.data[i])
        /\ (a.shape = <<1>> /\ Len(b.shape) = 1) =>
             /\ ret.kind = "return"
             /\ out.shape = b.shape
             /\ Len(out.data) = Len(b.data)
             /\ \A i \in 1..Len(b.data) : IsSum(a.data[1], b.data[i], out.data[i])

\* An Add unit was applied to two inputs, the second differing from its
\* operand, and returned a tensor.
C3_Witness ==
  /\ IsForward("Add")
  /\ Len(call[1].args.x) = 2
  /\ call[1].args.x[1].shape = call[1].args.x[2].shape
  /\ call[1].args.x[2].shape = call[1].args.self.val.shape
  /\ call[1].args.x[2].data # call[1].args.self.val.data
  /\ ret.kind = "return"

\* C4: for a non-null node and a table holding "cst1", convert_onnx_add
\* returns an Add unit whose operand is the float array stored under "cst1",
\* whatever the node's input references are; with "cst1" = [2.0, 3.0] the
\* unit applied to the single input [1.0, 1.0] returns [3.0, 4.0].
C4_AddFactory ==
  /\ (IsCall("convert_onnx_add") /\ NodeGiven /\ HasTable /\ HasKey(TableGiven, "cst1")) =>
       /\ ret.kind = "return"
       /\ ret.value.cls = "Add"
       /\ ret.value.val.dtype = "float32"
       /\ ret.value.val.shape = <<Len(TableGiven["cst1"].float_data)>>
       /\ ret.value.val.data = TableGiven["cst1"].float_data
       /\ unit = Some(ret.value)
  /\ (/\ IsForward("Add")
      /\ call[1].args.self.val.data = <<QInt(2), QInt(3)>>
      /\ call[1].args.x = <<Vec("float32", <<QInt(1), QInt(1)>>)>>) =>
       /\ ret.kind = "return"
       /\ ret.value.data = <<QInt(3), QInt(4)>>
       /\ ret.value.shape = <<2>>

\* The unit built from "cst1" = [2.0, 3.0] was applied to [1.0, 1.0].
C4_Witness ==
  /\ IsForward("Add")
  /\ call[1].args.self.val.data = <<QInt(2), QInt(3)>>
  /\ call[1].args.x = <<Vec("float32", <<QInt(1), QInt(1)>>)>>
  /\ ret.kind = "return"

\* The Reshape factory returns a unit whose shape is the int64 array of the
\* initializer named by the node's second input reference.
ReshapeFactoryReadsShape ==
  (/\ IsCall("convert_onnx_reshape")
   /\ NodeGiven
   /\ Len(call[1].args.operator[1].input) >= 2
   /\ HasTable
   /\ HasKey(TableGiven, call[1].args.operator[1].input[2])) =>
    /\ ret.kind = "return"
    /\ ret.value.cls = "Reshape"
    /\ ret.value.shape = TableGiven[call[1].args.operator[1].input[2]].int64_data
    /\ unit = Some(ret.value)

\* The apply returned a tensor of the unit's shape with the input's elements
\* in the input's order.
ReshapedAsGiven ==
  /\ ret.kind = "return"
  /\ ret.value.shape = call[1].args.self.shape
  /\ ret.value.data = call[1].args.x[1].data
  /\ ret.value.dtype = call[1].args.x[1].dtype

\* C5 as stated: the factory reads the shape, and the unit applied to any
\* input whose element count equals the product of the shape returns the
\* input in that shape.
C5_Original ==
  /\ ReshapeFactoryReadsShape
  /\ (IsForward("Reshape") /\ Numel(call[1].args.x[1]) = Prod(call[1].args.self.shape)) =>
       ReshapedAsGiven

\* C5 amended: the factory reads the shape, and when no entry of the shape
\* is negative the unit applied to any input whose element count equals the
\* product of the shape returns the input in that shape, element values and
\* linear order kept.
C5_ReshapeNonNegative ==
  /\ ReshapeFactoryReadsShape
  /\ (/\ IsForward("Reshape")
      /\ \A i \in 1..Len(call[1].args.self.shape) : call[1].args.self.shape[i] >= 0
      /\ Numel(call[1].args.x[1]) = Prod(call[1].args.self.shape)) =>
       ReshapedAsGiven

\* The unit of shape [2, 3] was applied to a tensor of 6 elements.
C5_Witness ==
  /\ IsForward("Reshape")
  /\ call[1].args.self.shape = <<2, 3>>
  /\ call[1].args.x[1].data = Iota(6)
  /\ ret.kind = "return"
  /\ ret.value.shape = <<2, 3>>

\* C6: once the module is loaded, and ever after, the registry maps each of
\* the ten operator type names to the converter written for it, and holds
\* nothing else; no factory call and no apply changes it.
C6_RegistryLoaded ==
  Loaded =>
    converter_pool =
      [n \in {"ONNXMLAbs", "ONNXMLAdd", "ONNXMLCast", "ONNXMLConcat", "ONNXMLDiv",
              "ONNXMLLess", "ONNXMLMul", "ONNXMLNeg", "ONNXMLReshape", "ONNXMLSum"} |->
         CASE n = "ONNXMLAbs" -> "convert_onnx_abs"
           [] n = "ONNXMLAdd" -> "convert_onnx_add"
           [] n = "ONNXMLCast" -> "convert_onnx_cast"
           [] n = "ONNXMLConcat" -> "convert_onnx_concat"
           [] n = "ONNXMLDiv" -> "convert_onnx_div"
           [] n = "ONNXMLLess" -> "convert_onnx_less"
           [] n = "ONNXMLMul" -> "convert_onnx_mul"
           [] n = "ONNXMLNeg" -> "convert_onnx_neg"
           [] n = "ONNXMLReshape" -> "convert_onnx_reshape"
           [] n = "ONNXMLSum" -> "convert_onnx_sum"]

\* The module is loaded, a factory has been called and its unit applied.
C6_Witness ==
  /\ Loaded
  /\ IsCall("forward")
  /\ DOMAIN converter_pool # {}

\* A factory call raised an assertion error.
AssertionRaised == ret.kind = "raise" /\ ret.exc = "AssertionError"

\* Every factory called with no node fails with an assertion error of its
\* own and returns no unit.
NullNodeRejected ==
  (IsFactoryCall /\ ~NodeGiven) =>
    /\ AssertionRaised
    /\ ret.where = call[1].fn
    /\ unit = None

\* C8 as stated: a null node is rejected, and with a node no factory call
\* fails with an assertion error.
C8_Original ==
  /\ NullNodeRejected
  /\ (IsFactoryCall /\ NodeGiven) => ~AssertionRaised

\* C8 amended: a null node is rejected by every factory; with a node, the
\* only factory call that fails with an assertion error is convert_onnx_cast
\* on a node with no attribute "to", where the Cast constructor's assertion
\* on the type fails.
C8_Preconditions ==
  /\ NullNodeRejected
  /\ (IsFactoryCall /\ NodeGiven) =>
       (AssertionRaised <=>
          /\ call[1].fn = "convert_onnx_cast"
          /\ NoTo(call[1].args.operator[1].attribute))
  /\ (IsFactoryCall /\ NodeGiven /\ AssertionRaised) => ret.where = "Cast.__init__"

\* A factory other than the Cast factory was called with no node.
C8_Witness ==
  /\ IsCall("convert_onnx_reshape")
  /\ ~NodeGiven
  /\ AssertionRaised

\* The initializer the last factory call reads is missing: the table is not
\* in extra_config, or the name is not in the table.
InitializerMissing ==
  /\ IsFactoryCall
  /\ NodeGiven
  /\ \/ /\ call[1].fn \in {"convert_onnx_add", "convert_onnx_mul", "convert_onnx_less",
                           "convert_onnx_reshape"}
        /\ ~HasTable
     \/ /\ HasTable
        /\ \/ call[1].fn = "convert_onnx_add" /\ ~HasKey(TableGiven, "cst1")
           \/ call[1].fn = "convert_onnx_mul" /\ ~HasKey(TableGiven, "cst3")
           \/ call[1].fn = "convert_onnx_less" /\ ~HasKey(TableGiven, "cst0")
           \/ /\ call[1].fn = "convert_onnx_reshape"
              /\ Len(call[1].args.operator[1].input) >= 2
              /\ ~HasKey(TableGiven, call[1].args.operator[1].input[2])

\* C9 as stated: a missing initializer surfaces as a numeric-operation error
\* of the tensor runtime, not as an error of the factory's lookup.
C9_Original ==
  InitializerMissing =>
    /\ ret.kind = "raise"
    /\ ret.exc = "RuntimeError"
    /\ ret.where # call[1].fn
    /\ unit = None

\* C9 amended: a missing initializer, or a missing table, is not checked for
\* by the module; it surfaces at the factory call as the KeyError of the
\* factory's own lookup, naming the missing key, before any tensor
\* operation, and no unit is returned.
C9_MissingInitializer ==
  InitializerMissing =>
    /\ ret.kind = "raise"
    /\ ret.exc = "KeyError"
    /\ ret.where = call[1].fn
    /\ ret.msg \in {<<ONNX_INITIALIZERS>>, <<"cst0">>, <<"cst1">>, <<"cst3">>}
                     \cup {<<n>> : n \in InputNames}
    /\ unit = None

\* convert_onnx_mul was called with a table that does not hold "cst3".
C9_Witness ==
  /\ IsCall("convert_onnx_mul")
  /\ NodeGiven
  /\ HasTable
  /\ ~HasKey(TableGiven, "cst3")
  /\ ret.kind = "raise"

\* The forward of the class of unit u.
ForwardOf(u, x) ==
  CASE u.cls = "Cast" -> CastForward(u, x)
    [] u.cls = "Reshape" -> ReshapeForward(u, x)
    [] u.cls = "Sum" -> SumForward(u, x)
    [] u.cls = "Add" -> AddForward(u, x)
    [] u.cls = "Less" -> LessForward(u, x)
    [] u.cls = "Neg" -> NegForward(u, x)
    [] u.cls = "Abs" -> AbsForward(u, x)
    [] u.cls = "Mul" -> MulForward(u, x)
    [] u.cls = "Div" -> DivForward(u, x)

\* C10: an apply, failing or not, leaves the unit's parameters and its
\* inputs as they were, so the unit applied again to the same inputs gives
\* the same outcome; a factory call leaves the node descriptor and the
\* extra-configuration map (the initializer table in it) as they were.
C10_NothingMutated ==
  /\ call # None => after = Some(call[1].args)
  /\ IsCall("forward") =>
       /\ unit = Some(call[1].args.self)
       /\ ForwardOf(unit[1], call[1].args.x).ret = ret

\* An apply failed and the unit is as it was before.
C10_Witness ==
  /\ IsForward("Reshape")
  /\ ret.kind = "raise"
  /\ unit = Some(call[1].args.self)

====
